---- MODULE Spec2Model ----
(***************************************************************************)
(* Authentication controller of the alumni web site                        *)
(* (server/controllers/authController.js): the credential store, the      *)
(* bearer tokens, the request handlers split at the database operations    *)
(* they await, and the access guard; and the Sessions page of the client,  *)
(* which sorts the sessions of the sessions API into three buckets.        *)
(***************************************************************************)
EXTENDS Integers, FiniteSets, Sequences, Bags, TLC

(* ---------------- bounds of the model ---------------- *)
MaxTime == 3
MaxIds == 2
MaxRaw == 2
MaxInflight == 2
MaxSessions == 2

(* ---------------- configuration ---------------- *)
\* process.env.JWT_EXPIRE, in clock ticks
JWT_EXPIRE == 2
\* lifetime of a password reset ticket, in clock ticks
RESET_EXPIRE == 2

Emails == {"a@x", "b@x"}
\* an email no identity is ever registered with
UnknownEmail == "nobody@x"
Passwords == {"p0", "p1"}
Roles == {"student", "admin"}
GoogleProfiles == {[id |-> "g1", email |-> "a@x"]}
JWT_SECRET == "server-secret"
OtherSecret == "other-secret"

None == <<>>

(* ---------------- one-way functions ---------------- *)
\* bcrypt hash of a password, as stored by the save path of the store
HashPassword(p) == <<"bcrypt", p>>
\* crypto.createHash('sha256').update(raw).digest('hex')
Sha256(raw) == <<"sha256", raw>>

(* ---------------- token service ---------------- *)
Mac(key, id, iat, exp) == <<key, id, iat, exp>>

\* jwt.sign({ id }, secret, { expiresIn }) at time t
JwtSign(id, key, t) ==
    [id |-> id, iat |-> t, exp |-> t + JWT_EXPIRE,
     mac |-> Mac(key, id, t, t + JWT_EXPIRE)]

signToken(id, t) == JwtSign(id, JWT_SECRET, t)

NoToken == [id |-> 0, iat |-> 0, exp |-> 0, mac |-> None]

\* a verification that never looks at the expiry
JwtVerifies_NoExpiry(tok, t) ==
    tok.mac = Mac(JWT_SECRET, tok.id, tok.iat, tok.exp)

\* jwt.verify(token, secret) at time t: the signature covers the payload and
\* the token is expired once the clock has reached exp
JwtVerifies(tok, t) ==
    /\ tok.mac = Mac(JWT_SECRET, tok.id, tok.iat, tok.exp)
    /\ t < tok.exp

VARIABLES users, nextId, nextRaw, now, reqs, resp, resetDone,
          stored, sessions, loading, error, calls, dialog

\* the server's state and the state of the Sessions page
authVars == <<users, nextId, nextRaw, now, reqs, resp, resetDone>>
pageVars == <<stored, sessions, loading, error, calls, dialog>>
vars == <<users, nextId, nextRaw, now, reqs, resp, resetDone,
          stored, sessions, loading, error, calls, dialog>>

(* ---------------- the Sessions page ---------------- *)
\* useState of the three buckets
NoSessions == [ongoing |-> <<>>, previous |-> <<>>, upcoming |-> <<>>]

\* the last question window.confirm has put and its answer
NoDialog == [op |-> "", confirmed |-> FALSE]

\* the page before it is mounted: nothing fetched, nothing asked
PageUnmounted ==
    /\ stored = <<>>
    /\ sessions = NoSessions
    /\ loading = TRUE
    /\ error = ""
    /\ calls = EmptyBag
    /\ dialog = NoDialog

(* ---------------- credential store ---------------- *)
NewUser(id, email, pw, role, gid) ==
    [id |-> id, fullName |-> "name", email |-> email, password |-> pw, role |-> role,
     googleId |-> gid, isEmailVerified |-> TRUE,
     passwordResetToken |-> None, passwordResetExpires |-> None,
     emailVerificationToken |-> None, emailVerificationExpires |-> None]

\* User.findOne({ email })
FindByEmail(store, email) == {u \in store : u.email = email}
\* User.findOne({ googleId })
FindByGoogleId(store, gid) == {u \in store : u.googleId = gid}
\* User.findById(id)
FindById(store, id) == {u \in store : u.id = id}
\* User.findOne({ passwordResetToken: h, passwordResetExpires: { $gt: t } })
FindByResetToken(store, h, t) ==
    {u \in store : /\ u.passwordResetToken = h
                   /\ u.passwordResetExpires # None
                   /\ u.passwordResetExpires[1] > t}

\* a store without the unique index
CreateAllowed_NoIndex(store, email) == TRUE

\* the unique index on email: a create with a stored email is rejected
CreateAllowed(store, email) == FindByEmail(store, email) = {}

\* user.comparePassword(candidate) against the stored hash
comparePassword(u, candidate) ==
    /\ u.password # None
    /\ u.password = HashPassword(candidate)

(* ---------------- responses ---------------- *)
\* what a handler hands back: res.status(..).json(..), res.redirect(..) or
\* next(); data is the user object of the payload, or req.user after next()
Response(op, status, message, token, data, next) ==
    [op |-> op, status |-> status, message |-> message, token |-> token,
     data |-> data, next |-> next]

NoResponse == Response("", 0, "", NoToken, None, FALSE)

Error(op, status, message) == Response(op, status, message, NoToken, None, FALSE)

\* a payload that hands the stored document over as it is
SignupProjection_WholeDocument(u) == <<u>>

\* the public projection of signup's payload
SignupProjection(u) ==
    <<[id |-> u.id, fullName |-> u.fullName, email |-> u.email,
       role |-> u.role, isEmailVerified |-> u.isEmailVerified]>>

\* the public projection of login's payload
LoginProjection(u) ==
    <<[id |-> u.id, fullName |-> u.fullName, email |-> u.email,
       role |-> u.role]>>

(* ---------------- requests in flight ---------------- *)
Request(op, pc, email, password, role, gid, uid, raw, exp) ==
    [op |-> op, pc |-> pc, email |-> email,
     password |-> password, role |-> role, gid |-> gid, uid |-> uid,
     raw |-> raw, exp |-> exp]

\* the requests in flight are a bag: two requests may be alike
InFlight == BagToSet(reqs)
Accepting == BagCardinality(reqs) < MaxInflight
Enter(r) == reqs (+) SetToBag({r})
Leave(r) == reqs (-) SetToBag({r})
Saving == BagCardinality([r \in {q \in InFlight : q.op = "forgot" /\ q.pc = "save"} |-> reqs[r]])
Creating == BagCardinality([r \in {q \in InFlight : q.pc = "create"} |-> reqs[r]])

Init ==
    /\ users = {}
    /\ nextId = 1
    /\ nextRaw = 1
    /\ now = 0
    /\ reqs = EmptyBag
    /\ resp = NoResponse
    /\ resetDone = [t \in 1..MaxRaw |-> 0]
    /\ PageUnmounted

\* the clock
Tick ==
    /\ now < MaxTime
    /\ now' = now + 1
    /\ UNCHANGED <<users, nextId, nextRaw, reqs, resp, resetDone>>

(* ---------------- signup ---------------- *)
\* signup without the lookup of the email
SignupFind_NoLookup(email, password, role) ==
    /\ Accepting
    /\ nextId + Creating <= MaxIds
    /\ reqs' = Enter(Request("signup", "create", email, password, role, "", 0, 0, 0))
    /\ UNCHANGED <<users, nextId, nextRaw, now, resp, resetDone>>

\* signup up to the answer of User.findOne({ email })
SignupFind(email, password, role) ==
    /\ IF FindByEmail(users, email) # {}
       THEN /\ resp' = Error("signup", 400, "Email already registered")
            /\ reqs' = reqs
       ELSE /\ Accepting
            /\ nextId + Creating <= MaxIds
            /\ reqs' = Enter(Request("signup", "create", email, password, role, "", 0, 0, 0))
            /\ resp' = resp
    /\ UNCHANGED <<users, nextId, nextRaw, now, resetDone>>

\* signup from User.create to the response
SignupCreate(r) ==
    /\ r.op = "signup" /\ r.pc = "create"
    /\ reqs' = Leave(r)
    /\ IF CreateAllowed(users, r.email)
       THEN LET u == NewUser(nextId, r.email, HashPassword(r.password), r.role, "")
            IN /\ users' = users \cup {u}
               /\ nextId' = nextId + 1
               /\ resp' = Response("signup", 201, "success",
                                   signToken(u.id, now), SignupProjection(u), FALSE)
       ELSE /\ resp' = Error("signup", 400, "duplicate key error")
            /\ UNCHANGED <<users, nextId>>
    /\ UNCHANGED <<nextRaw, now, resetDone>>

(* ---------------- third-party login ---------------- *)
\* the redirect of googleCallback with the token of the user passport hands over
GoogleRedirect(u) ==
    Response("google", 302, "/auth/success", signToken(u.id, now), None, FALSE)

\* a verify callback that creates a user for every profile it is handed
GoogleFind_NoLookup(profile) ==
    /\ Accepting
    /\ nextId + Creating <= MaxIds
    /\ reqs' = Enter(Request("google", "create", profile.email, "", "", profile.id, 0, 0, 0))
    /\ UNCHANGED <<users, nextId, nextRaw, now, resp, resetDone>>

\* the strategy's verify callback up to the answer of User.findOne({ googleId });
\* a stored user goes straight through done(null, user) to the redirect
GoogleFind(profile) ==
    /\ IF FindByGoogleId(users, profile.id) # {}
       THEN /\ resp' = GoogleRedirect(CHOOSE u \in FindByGoogleId(users, profile.id) : TRUE)
            /\ reqs' = reqs
       ELSE /\ Accepting
            /\ nextId + Creating <= MaxIds
            /\ reqs' = Enter(Request("google", "create", profile.email, "", "", profile.id, 0, 0, 0))
            /\ resp' = resp
    /\ UNCHANGED <<users, nextId, nextRaw, now, resetDone>>

\* the verify callback from User.create on, then googleCallback
GoogleCreate(r) ==
    /\ r.op = "google" /\ r.pc = "create"
    /\ reqs' = Leave(r)
    /\ IF CreateAllowed(users, r.email)
       THEN LET u == NewUser(nextId, r.email, None, "student", r.gid)
            IN /\ users' = users \cup {u}
               /\ nextId' = nextId + 1
               /\ resp' = GoogleRedirect(u)
       ELSE /\ resp' = Error("google", 401, "duplicate key error")
            /\ UNCHANGED <<users, nextId>>
    /\ UNCHANGED <<nextRaw, now, resetDone>>

\* googleCallback when passport reports a failed authentication: it calls back
\* with no error and with false for the user, whose _id is undefined; the
\* handler signs a token for it and redirects
GoogleFail ==
    /\ resp' = Response("google", 302, "/auth/success", signToken(0, now), None, FALSE)
    /\ UNCHANGED <<users, nextId, nextRaw, now, reqs, resetDone>>

(* ---------------- login ---------------- *)
\* a login that tells an unknown email from a wrong password
LoginResponse_TellsUnknown(store, email, password, t) ==
    IF email = "" \/ password = ""
    THEN Error("login", 400, "Please provide email and password")
    ELSE LET found == FindByEmail(store, email) IN
         IF found = {}
         THEN Error("login", 404, "No user found with that email address")
         ELSE IF ~comparePassword(CHOOSE u \in found : TRUE, password)
         THEN Error("login", 401, "Incorrect email or password")
         ELSE LET u == CHOOSE u \in found : TRUE
              IN Response("login", 200, "success", signToken(u.id, t),
                          LoginProjection(u), FALSE)

\* the response of login for a body { email, password } against a store
LoginResponse(store, email, password, t) ==
    IF email = "" \/ password = ""
    THEN Error("login", 400, "Please provide email and password")
    ELSE LET found == FindByEmail(store, email) IN
         IF found = {} \/ ~comparePassword(CHOOSE u \in found : TRUE, password)
         THEN Error("login", 401, "Incorrect email or password")
         ELSE LET u == CHOOSE u \in found : TRUE
              IN Response("login", 200, "success", signToken(u.id, t),
                          LoginProjection(u), FALSE)

Login(email, password) ==
    /\ resp' = LoginResponse(users, email, password, now)
    /\ UNCHANGED <<users, nextId, nextRaw, now, reqs, resetDone>>

(* ---------------- forgot password ---------------- *)
\* a forgot-password that answers an unknown email like a known one
ForgotFind_HidesUnknown(email) ==
    /\ IF FindByEmail(users, email) = {}
       THEN /\ resp' = Response("forgot", 200, "Password reset link sent to email",
                                NoToken, None, FALSE)
            /\ reqs' = reqs
       ELSE LET u == CHOOSE u \in FindByEmail(users, email) : TRUE IN
            /\ Accepting
            /\ nextRaw + Saving <= MaxRaw
            /\ reqs' = Enter(Request("forgot", "save", email, "", "", "", u.id, 0, 0))
            /\ resp' = resp
    /\ UNCHANGED <<users, nextId, nextRaw, now, resetDone>>

\* forgotPassword up to the answer of User.findOne({ email })
ForgotFind(email) ==
    /\ IF FindByEmail(users, email) = {}
       THEN /\ resp' = Error("forgot", 404, "No user found with that email address")
            /\ reqs' = reqs
       ELSE LET u == CHOOSE u \in FindByEmail(users, email) : TRUE IN
            /\ Accepting
            /\ nextRaw + Saving <= MaxRaw
            /\ reqs' = Enter(Request("forgot", "save", email, "", "", "", u.id, 0, 0))
            /\ resp' = resp
    /\ UNCHANGED <<users, nextId, nextRaw, now, resetDone>>

\* user.save() of a loaded document: the update of the modified fields of the
\* record with the document's id
SaveFields(store, uid, pw, resetToken, resetExpires) ==
    {IF u.id = uid
     THEN [u EXCEPT !.password = pw, !.passwordResetToken = resetToken,
                    !.passwordResetExpires = resetExpires]
     ELSE u : u \in store}

\* a forgot-password that leaves a ticket the record already holds in place
\* and mails the new token all the same
ForgotSave_KeepsOldTicket(r) ==
    /\ r.op = "forgot" /\ r.pc = "save"
    /\ nextRaw' = nextRaw + 1
    /\ IF FindById(users, r.uid) = {}
       THEN /\ resp' = Error("forgot", 400, "document not found")
            /\ reqs' = Leave(r)
            /\ users' = users
       ELSE LET u == CHOOSE u \in FindById(users, r.uid) : TRUE IN
            /\ users' = IF u.passwordResetToken # None
                        THEN users
                        ELSE SaveFields(users, r.uid, u.password, Sha256(nextRaw),
                                        <<now + RESET_EXPIRE>>)
            /\ reqs' = Leave(r) (+) SetToBag({[r EXCEPT !.pc = "mail", !.raw = nextRaw]})
            /\ resp' = resp
    /\ UNCHANGED <<nextId, now, resetDone>>

\* forgotPassword from user.generatePasswordResetToken(), a fresh random
\* token whose hash and expiry are set on the loaded document, to the end of
\* user.save(), which persists the ticket
ForgotSave(r) ==
    /\ r.op = "forgot" /\ r.pc = "save"
    /\ nextRaw' = nextRaw + 1
    /\ IF FindById(users, r.uid) = {}
       THEN /\ resp' = Error("forgot", 400, "document not found")
            /\ reqs' = Leave(r)
            /\ users' = users
       ELSE LET u == CHOOSE u \in FindById(users, r.uid) : TRUE IN
            /\ users' = SaveFields(users, r.uid, u.password, Sha256(nextRaw),
                                   <<now + RESET_EXPIRE>>)
            /\ reqs' = Leave(r) (+) SetToBag({[r EXCEPT !.pc = "mail", !.raw = nextRaw]})
            /\ resp' = resp
    /\ UNCHANGED <<nextId, now, resetDone>>

\* the outcomes of sendPasswordResetEmail: the mail is sent, or the
\* dispatch fails and the awaited call rejects
MailOutcomes == BOOLEAN

\* a handler that reports success whatever became of the mail
ForgotMailResponse_IgnoresFailure(sent) ==
    Response("forgot", 200, "Password reset link sent to email", NoToken, None, FALSE)

\* forgotPassword from the outcome of the awaited sendPasswordResetEmail on
ForgotMailResponse(sent) ==
    IF sent
    THEN Response("forgot", 200, "Password reset link sent to email", NoToken, None, FALSE)
    ELSE Error("forgot", 400, "email dispatch failed")

\* a forgot-password that takes the ticket back when the dispatch fails
ForgotMail_RollsBack(r, sent) ==
    /\ r.op = "forgot" /\ r.pc = "mail"
    /\ reqs' = Leave(r)
    /\ resp' = ForgotMailResponse(sent)
    /\ users' = IF sent
                THEN users
                ELSE {IF u.id = r.uid
                      THEN [u EXCEPT !.passwordResetToken = None,
                                     !.passwordResetExpires = None]
                      ELSE u : u \in users}
    /\ UNCHANGED <<nextId, nextRaw, now, resetDone>>

\* forgotPassword's awaited sendPasswordResetEmail(email, resetToken) and the
\* response that follows it
ForgotMail(r, sent) ==
    /\ r.op = "forgot" /\ r.pc = "mail"
    /\ reqs' = Leave(r)
    /\ resp' = ForgotMailResponse(sent)
    /\ UNCHANGED <<users, nextId, nextRaw, now, resetDone>>

(* ---------------- reset password ---------------- *)
\* a reset that drops the ticket it was shown once that ticket is out of date
ResetFind_ClearsExpired(raw, password) ==
    /\ IF FindByResetToken(users, Sha256(raw), now) = {}
       THEN /\ resp' = Error("reset", 400, "Invalid or expired reset token")
            /\ reqs' = reqs
            /\ users' = {IF u.passwordResetToken = Sha256(raw)
                         THEN [u EXCEPT !.passwordResetToken = None,
                                        !.passwordResetExpires = None]
                         ELSE u : u \in users}
       ELSE LET u == CHOOSE u \in FindByResetToken(users, Sha256(raw), now) : TRUE IN
            /\ Accepting
            /\ reqs' = Enter(Request("reset", "save", u.email, password, "", "", u.id, raw, 0))
            /\ resp' = resp
            /\ users' = users
    /\ UNCHANGED <<nextId, nextRaw, now, resetDone>>

\* resetPassword up to the answer of User.findOne by ticket hash and expiry
ResetFind(raw, password) ==
    /\ IF FindByResetToken(users, Sha256(raw), now) = {}
       THEN /\ resp' = Error("reset", 400, "Invalid or expired reset token")
            /\ reqs' = reqs
       ELSE LET u == CHOOSE u \in FindByResetToken(users, Sha256(raw), now) : TRUE IN
            /\ Accepting
            /\ reqs' = Enter(Request("reset", "save", u.email, password, "", "", u.id, raw, 0))
            /\ resp' = resp
    /\ UNCHANGED <<users, nextId, nextRaw, now, resetDone>>

\* a reset that leaves the ticket on the record
ResetSave_KeepsTicket(r) ==
    /\ r.op = "reset" /\ r.pc = "save"
    /\ reqs' = Leave(r)
    /\ IF FindById(users, r.uid) = {}
       THEN /\ resp' = Error("reset", 400, "document not found")
            /\ UNCHANGED <<users, resetDone>>
       ELSE LET u == CHOOSE u \in FindById(users, r.uid) : TRUE IN
            /\ users' = SaveFields(users, r.uid, HashPassword(r.password),
                                   u.passwordResetToken, u.passwordResetExpires)
            /\ resp' = Response("reset", 200, "Password reset successfully",
                                NoToken, None, FALSE)
            /\ resetDone' = [resetDone EXCEPT ![r.raw] = @ + 1]
    /\ UNCHANGED <<nextId, nextRaw, now>>

\* a reset that clears the ticket and leaves the password
ResetSave_KeepsPassword(r) ==
    /\ r.op = "reset" /\ r.pc = "save"
    /\ reqs' = Leave(r)
    /\ IF FindById(users, r.uid) = {}
       THEN /\ resp' = Error("reset", 400, "document not found")
            /\ UNCHANGED <<users, resetDone>>
       ELSE LET u == CHOOSE u \in FindById(users, r.uid) : TRUE IN
            /\ users' = SaveFields(users, r.uid, u.password, None, None)
            /\ resp' = Response("reset", 200, "Password reset successfully",
                                NoToken, None, FALSE)
            /\ resetDone' = [resetDone EXCEPT ![r.raw] = @ + 1]
    /\ UNCHANGED <<nextId, nextRaw, now>>

\* resetPassword's user.save(): the new password (hashed by the save path)
\* and the cleared ticket fields in one update
ResetSave(r) ==
    /\ r.op = "reset" /\ r.pc = "save"
    /\ reqs' = Leave(r)
    /\ IF FindById(users, r.uid) = {}
       THEN /\ resp' = Error("reset", 400, "document not found")
            /\ UNCHANGED <<users, resetDone>>
       ELSE /\ users' = SaveFields(users, r.uid, HashPassword(r.password), None, None)
            /\ resp' = Response("reset", 200, "Password reset successfully",
                                NoToken, None, FALSE)
            /\ resetDone' = [resetDone EXCEPT ![r.raw] = @ + 1]
    /\ UNCHANGED <<nextId, nextRaw, now>>

(* ---------------- verify email ---------------- *)
\* User.findOne({ emailVerificationToken: h, emailVerificationExpires: { $gt: t } })
FindByVerificationToken(store, h, t) ==
    {u \in store : /\ u.emailVerificationToken = h
                   /\ u.emailVerificationExpires # None
                   /\ u.emailVerificationExpires[1] > t}

\* verifyEmail up to the answer of User.findOne by ticket hash and expiry
VerifyFind(raw) ==
    /\ IF FindByVerificationToken(users, Sha256(raw), now) = {}
       THEN /\ resp' = Error("verify", 400, "Invalid or expired verification token")
            /\ reqs' = reqs
       ELSE LET u == CHOOSE u \in FindByVerificationToken(users, Sha256(raw), now) : TRUE IN
            /\ Accepting
            /\ reqs' = Enter(Request("verify", "save", u.email, "", "", "", u.id, raw, 0))
            /\ resp' = resp
    /\ UNCHANGED <<users, nextId, nextRaw, now, resetDone>>

\* user.save() of verifyEmail's document: the flag and the two cleared ticket
\* fields in one update of the record with the document's id
SaveVerified(store, uid) ==
    {IF u.id = uid
     THEN [u EXCEPT !.isEmailVerified = TRUE, !.emailVerificationToken = None,
                    !.emailVerificationExpires = None]
     ELSE u : u \in store}

\* a verification that sets the flag and leaves the ticket on the record
VerifySave_KeepsTicket(r) ==
    /\ r.op = "verify" /\ r.pc = "save"
    /\ reqs' = Leave(r)
    /\ IF FindById(users, r.uid) = {}
       THEN /\ resp' = Error("verify", 400, "document not found")
            /\ users' = users
       ELSE /\ users' = {IF u.id = r.uid THEN [u EXCEPT !.isEmailVerified = TRUE] ELSE u
                          : u \in users}
            /\ resp' = Response("verify", 200, "Email verified successfully",
                                NoToken, None, FALSE)
    /\ UNCHANGED <<nextId, nextRaw, now, resetDone>>

\* verifyEmail from the assignments to the loaded document to the response
VerifySave(r) ==
    /\ r.op = "verify" /\ r.pc = "save"
    /\ reqs' = Leave(r)
    /\ IF FindById(users, r.uid) = {}
       THEN /\ resp' = Error("verify", 400, "document not found")
            /\ users' = users
       ELSE /\ users' = SaveVerified(users, r.uid)
            /\ resp' = Response("verify", 200, "Email verified successfully",
                                NoToken, None, FALSE)
    /\ UNCHANGED <<nextId, nextRaw, now, resetDone>>

(* ---------------- access guard ---------------- *)
\* the header 'Authorization: Bearer <k>'
Bearer(k) == [kind |-> "bearer", tok |-> k]

\* the token protect takes from the authorization header
BearerToken(header) ==
    IF header.kind = "bearer" THEN <<header.tok>> ELSE None

\* a guard that trusts the payload of any bearer token
ProtectResponse_Unverified(store, header, t) ==
    LET token == BearerToken(header) IN
    IF token = None
    THEN Error("protect", 401, "You are not logged in! Please log in to get access.")
    ELSE IF FindById(store, token[1].id) = {}
    THEN Error("protect", 401, "The user belonging to this token no longer exists.")
    ELSE Response("protect", 0, "", NoToken,
                  <<CHOOSE u \in FindById(store, token[1].id) : TRUE>>, TRUE)

\* a guard that also wants the identity's email verified
ProtectResponse_VerifiedOnly(store, header, t) ==
    LET token == BearerToken(header) IN
    IF token = None
    THEN Error("protect", 401, "You are not logged in! Please log in to get access.")
    ELSE IF ~JwtVerifies(token[1], t)
    THEN Error("protect", 401, "Invalid token")
    ELSE IF FindById(store, token[1].id) = {}
    THEN Error("protect", 401, "The user belonging to this token no longer exists.")
    ELSE IF ~(CHOOSE u \in FindById(store, token[1].id) : TRUE).isEmailVerified
    THEN Error("protect", 401, "Please verify your email")
    ELSE Response("protect", 0, "", NoToken,
                  <<CHOOSE u \in FindById(store, token[1].id) : TRUE>>, TRUE)

\* the response of protect for a header against a store at time t
ProtectResponse(store, header, t) ==
    LET token == BearerToken(header) IN
    IF token = None
    THEN Error("protect", 401, "You are not logged in! Please log in to get access.")
    ELSE IF ~JwtVerifies(token[1], t)
    THEN Error("protect", 401, "Invalid token")
    ELSE IF FindById(store, token[1].id) = {}
    THEN Error("protect", 401, "The user belonging to this token no longer exists.")
    ELSE Response("protect", 0, "", NoToken,
                  <<CHOOSE u \in FindById(store, token[1].id) : TRUE>>, TRUE)

\* the bearer tokens a client can present: tokens the server signed, copies of
\* them with an altered payload, and tokens signed with another key
SignedTokens == {signToken(id, t) : id \in 1..(nextId - 1), t \in 0..now}
TamperedTokens ==
    {[k EXCEPT !.exp = @ + 1] : k \in SignedTokens} \cup
    {[k EXCEPT !.id = (@ % MaxIds) + 1] : k \in SignedTokens}
ForgedTokens == {JwtSign(id, OtherSecret, t) : id \in 1..(nextId - 1), t \in 0..now}
Headers ==
    {[kind |-> k, tok |-> NoToken] : k \in {"none", "basic", "bearer-only"}} \cup
    {Bearer(k) : k \in SignedTokens \cup TamperedTokens \cup ForgedTokens}

protect(header) ==
    /\ resp' = ProtectResponse(users, header, now)
    /\ IF resp'.next
       THEN /\ Accepting
            /\ reqs' = Enter(Request("route", "restrict", "", "", resp'.data[1].role,
                          "", resp'.data[1].id, 0, 0))
       ELSE reqs' = reqs
    /\ UNCHANGED <<users, nextId, nextRaw, now, resetDone>>

\* a restriction that lets every role through
RestrictResponse_AllowAll(roles, role) ==
    Response("restrictTo", 0, "", NoToken, None, TRUE)

\* the response of the middleware restrictTo(...roles) for req.user.role
RestrictResponse(roles, role) ==
    IF role \notin roles
    THEN Error("restrictTo", 403, "You do not have permission to perform this action")
    ELSE Response("restrictTo", 0, "", NoToken, None, TRUE)

restrictTo(r, roles) ==
    /\ r.op = "route" /\ r.pc = "restrict"
    /\ reqs' = Leave(r)
    /\ resp' = RestrictResponse(roles, r.role)
    /\ UNCHANGED <<users, nextId, nextRaw, now, resetDone>>

(* ---------------- the rest of the application ---------------- *)
\* an identity is removed from the store by another part of the application
DeleteUser(u) ==
    /\ users' = users \ {u}
    /\ UNCHANGED <<nextId, nextRaw, now, reqs, resp, resetDone>>

(* ---------------- the Sessions page: handlers ---------------- *)
\* the status values the sessions API hands out; "" is a session without one
Statuses == {"ongoing", "completed", "upcoming", "cancelled", ""}

\* the lists the sessions API can hold: each entry is a session <<s>> with
\* its own _id, or null <<>>
StoredLists ==
    UNION {{[i \in 1..n |-> IF f[i] = "null" THEN <<>>
                            ELSE <<[id |-> i, status |-> f[i]]>>]
              : f \in [1..n -> Statuses \cup {"null"}]}
           : n \in 0..MaxSessions}

\* response.data?.sessions || [] of a response <<list>>, or of one without data
allSessions(response) == IF response = None THEN <<>> ELSE response[1]

\* formattedSession: the id and the status the card shows
formattedSession(session) ==
    [id |-> session.id,
     status |-> IF session.status = "" THEN "upcoming" ELSE session.status]

\* a choice of bucket that files cancelled sessions with the completed ones
BucketOf_CancelledPrevious(session) ==
    IF session.status = "ongoing" THEN "ongoing"
    ELSE IF session.status \in {"completed", "cancelled"} THEN "previous"
    ELSE "upcoming"

\* the if/else chain on session.status
BucketOf(session) ==
    IF session.status = "ongoing" THEN "ongoing"
    ELSE IF session.status = "completed" THEN "previous"
    ELSE "upcoming"

\* allSessions.forEach(...): null entries are skipped, every other session is
\* pushed, formatted, onto the end of its bucket
RECURSIVE forEach(_, _)
forEach(list, categorizedSessions) ==
    IF list = <<>>
    THEN categorizedSessions
    ELSE LET entry == Head(list) IN
         forEach(Tail(list),
                 IF entry = <<>>
                 THEN categorizedSessions
                 ELSE [categorizedSessions EXCEPT
                          ![BucketOf(entry[1])] = Append(@, formattedSession(entry[1]))])

\* the buckets handed to setSessions for a response of getAllSessions
Categorize(response) == forEach(allSessions(response), NoSessions)

\* the outcomes of sessionService.getAllSessions(): the stored list, a
\* response without data, or a rejection
GetOutcomes == {"ok", "nodata", "fail"}

GetResponse(outcome) == IF outcome = "ok" THEN <<stored>> ELSE None

\* the ids of the cards the page shows: none while it loads or shows an error
Displayed ==
    IF loading \/ error # ""
    THEN {}
    ELSE {sessions[b][i].id : b \in {"ongoing"}, i \in 1..Len(sessions.ongoing)} \cup
         {sessions[b][i].id : b \in {"previous"}, i \in 1..Len(sessions.previous)} \cup
         {sessions[b][i].id : b \in {"upcoming"}, i \in 1..Len(sessions.upcoming)}

Call(op, pc, id) == [op |-> op, pc |-> pc, id |-> id]
Calling == BagToSet(calls)

\* fetchSessions from the answer of getAllSessions on
FetchSessions(c, outcome) ==
    /\ c.op = "fetch" /\ c.pc = "get"
    /\ calls' = calls (-) SetToBag({c})
    /\ loading' = FALSE
    /\ IF outcome = "fail"
       THEN /\ error' = "Failed to load sessions. Please try again later."
            /\ sessions' = sessions
       ELSE /\ sessions' = Categorize(GetResponse(outcome))
            /\ error' = error
    /\ UNCHANGED <<stored, dialog>>

\* the sessions API removes the session with the id
DeleteStored(list, id) == SelectSeq(list, LAMBDA e : e = <<>> \/ e[1].id # id)

\* the sessions API marks the session with the id as cancelled
CancelStored(list, id) ==
    [i \in 1..Len(list) |->
        IF list[i] # <<>> /\ list[i][1].id = id
        THEN <<[list[i][1] EXCEPT !.status = "cancelled"]>>
        ELSE list[i]]

\* handleDeleteSession up to the call of sessionService.deleteSession: the
\* answer to window.confirm decides whether there is a call
handleDeleteSession(id, confirmed) ==
    /\ id \in Displayed
    /\ dialog' = [op |-> "delete", confirmed |-> confirmed]
    /\ IF confirmed
       THEN /\ BagCardinality(calls) < MaxInflight
            /\ calls' = calls (+) SetToBag({Call("delete", "call", id)})
       ELSE calls' = calls
    /\ UNCHANGED <<stored, sessions, loading, error>>

\* the awaited deleteSession: done by the API, or rejected
DeleteCall(c, done) ==
    /\ c.op = "delete" /\ c.pc = "call"
    /\ IF done
       THEN /\ stored' = DeleteStored(stored, c.id)
            /\ calls' = (calls (-) SetToBag({c})) (+) SetToBag({[c EXCEPT !.pc = "get"]})
            /\ error' = error
       ELSE /\ stored' = stored
            /\ calls' = calls (-) SetToBag({c})
            /\ error' = "Failed to delete session. Please try again later."
    /\ UNCHANGED <<sessions, loading, dialog>>

\* handleDeleteSession from the answer of the refreshing getAllSessions on
DeleteRefresh(c, outcome) ==
    /\ c.op = "delete" /\ c.pc = "get"
    /\ calls' = calls (-) SetToBag({c})
    /\ IF outcome = "fail"
       THEN /\ error' = "Failed to delete session. Please try again later."
            /\ sessions' = sessions
       ELSE /\ sessions' = Categorize(GetResponse(outcome))
            /\ error' = error
    /\ UNCHANGED <<stored, loading, dialog>>

\* handleCancelSession up to the call of sessionService.updateSessionStatus
handleCancelSession(id, confirmed) ==
    /\ id \in Displayed
    /\ dialog' = [op |-> "cancel", confirmed |-> confirmed]
    /\ IF confirmed
       THEN /\ BagCardinality(calls) < MaxInflight
            /\ calls' = calls (+) SetToBag({Call("cancel", "call", id)})
       ELSE calls' = calls
    /\ UNCHANGED <<stored, sessions, loading, error>>

\* the awaited updateSessionStatus(id, 'cancelled'): done, or rejected
CancelCall(c, done) ==
    /\ c.op = "cancel" /\ c.pc = "call"
    /\ IF done
       THEN /\ stored' = CancelStored(stored, c.id)
            /\ calls' = (calls (-) SetToBag({c})) (+) SetToBag({[c EXCEPT !.pc = "get"]})
            /\ error' = error
       ELSE /\ stored' = stored
            /\ calls' = calls (-) SetToBag({c})
            /\ error' = "Failed to cancel session. Please try again later."
    /\ UNCHANGED <<sessions, loading, dialog>>

\* handleCancelSession from the answer of the refreshing getAllSessions on
CancelRefresh(c, outcome) ==
    /\ c.op = "cancel" /\ c.pc = "get"
    /\ calls' = calls (-) SetToBag({c})
    /\ IF outcome = "fail"
       THEN /\ error' = "Failed to cancel session. Please try again later."
            /\ sessions' = sessions
       ELSE /\ sessions' = Categorize(GetResponse(outcome))
            /\ error' = error
    /\ UNCHANGED <<stored, loading, dialog>>

(* ---------------- specifications ---------------- *)
\* registration, third-party login and login against the shared store
Next ==
    \/ Tick /\ UNCHANGED pageVars
    \/ \E e \in Emails, p \in Passwords, ro \in Roles : SignupFind(e, p, ro) /\ UNCHANGED pageVars
    \/ \E r \in InFlight : SignupCreate(r) /\ UNCHANGED pageVars
    \/ \E g \in GoogleProfiles : GoogleFind(g) /\ UNCHANGED pageVars
    \/ \E r \in InFlight : GoogleCreate(r) /\ UNCHANGED pageVars
    \/ GoogleFail /\ UNCHANGED pageVars
    \/ \E e \in Emails \cup {"", UnknownEmail}, p \in Passwords \cup {""} : Login(e, p) /\ UNCHANGED pageVars
    \/ \E u \in users : DeleteUser(u) /\ UNCHANGED pageVars

Spec == Init /\ [][Next]_vars

\* the password reset flow, from a store that two signups have filled
Registered ==
    {NewUser(1, "a@x", HashPassword("p0"), "student", ""),
     NewUser(2, "b@x", HashPassword("p1"), "admin", "")}

InitReset ==
    /\ users = Registered
    /\ nextId = 3
    /\ nextRaw = 1
    /\ now = 0
    /\ reqs = EmptyBag
    /\ resp = NoResponse
    /\ resetDone = [t \in 1..MaxRaw |-> 0]
    /\ PageUnmounted

NextReset ==
    \/ Tick /\ UNCHANGED pageVars
    \/ \E e \in Emails \cup {UnknownEmail} : ForgotFind(e) /\ UNCHANGED pageVars
    \/ \E r \in InFlight : ForgotSave(r) /\ UNCHANGED pageVars
    \/ \E r \in InFlight, sent \in MailOutcomes : ForgotMail(r, sent) /\ UNCHANGED pageVars
    \/ \E raw \in 1..MaxRaw, p \in Passwords : ResetFind(raw, p) /\ UNCHANGED pageVars
    \/ \E r \in InFlight : ResetSave(r) /\ UNCHANGED pageVars

SpecReset == InitReset /\ [][NextReset]_vars

\* the access guard in front of the protected routes
NextGuard ==
    \/ Tick /\ UNCHANGED pageVars
    \/ \E e \in Emails, p \in Passwords, ro \in Roles : SignupFind(e, p, ro) /\ UNCHANGED pageVars
    \/ \E r \in InFlight : SignupCreate(r) /\ UNCHANGED pageVars
    \/ \E e \in Emails, p \in Passwords : Login(e, p) /\ UNCHANGED pageVars
    \/ \E h \in Headers : protect(h) /\ UNCHANGED pageVars
    \/ \E r \in InFlight, roles \in SUBSET Roles : restrictTo(r, roles) /\ UNCHANGED pageVars
    \/ \E u \in users : DeleteUser(u) /\ UNCHANGED pageVars

SpecGuard == Init /\ [][NextGuard]_vars

\* the password reset flow of a single registered identity: every ticket
\* issued is a ticket of this identity
InitForgot ==
    /\ users = {NewUser(1, "a@x", HashPassword("p0"), "student", "")}
    /\ nextId = 2
    /\ nextRaw = 1
    /\ now = 0
    /\ reqs = EmptyBag
    /\ resp = NoResponse
    /\ resetDone = [t \in 1..MaxRaw |-> 0]
    /\ PageUnmounted

SpecForgot == InitForgot /\ [][NextReset]_vars

\* third-party login together with the password reset flow
NextOAuth ==
    \/ Tick /\ UNCHANGED pageVars
    \/ \E profile \in GoogleProfiles : GoogleFind(profile) /\ UNCHANGED pageVars
    \/ \E r \in InFlight : GoogleCreate(r) /\ UNCHANGED pageVars
    \/ \E e \in Emails : ForgotFind(e) /\ UNCHANGED pageVars
    \/ \E r \in InFlight : ForgotSave(r) /\ UNCHANGED pageVars
    \/ \E r \in InFlight, sent \in MailOutcomes : ForgotMail(r, sent) /\ UNCHANGED pageVars
    \/ \E raw \in 1..MaxRaw, p \in Passwords : ResetFind(raw, p) /\ UNCHANGED pageVars
    \/ \E r \in InFlight : ResetSave(r) /\ UNCHANGED pageVars

SpecOAuth == Init /\ [][NextOAuth]_vars

\* the tickets at work: identity 1 awaits its email verification with raw
\* token 1, identity 2 has asked for a password reset and holds raw token 2
Ticketed ==
    {[NewUser(1, "a@x", HashPassword("p0"), "student", "") EXCEPT
         !.isEmailVerified = FALSE,
         !.emailVerificationToken = Sha256(1),
         !.emailVerificationExpires = <<RESET_EXPIRE>>],
     [NewUser(2, "b@x", HashPassword("p1"), "admin", "") EXCEPT
         !.passwordResetToken = Sha256(2),
         !.passwordResetExpires = <<RESET_EXPIRE>>]}

InitVerify ==
    /\ users = Ticketed
    /\ nextId = 3
    /\ nextRaw = 3
    /\ now = 0
    /\ reqs = EmptyBag
    /\ resp = NoResponse
    /\ resetDone = [t \in 1..MaxRaw |-> 0]
    /\ PageUnmounted

NextVerify ==
    \/ Tick /\ UNCHANGED pageVars
    \/ \E raw \in 1..MaxRaw : VerifyFind(raw) /\ UNCHANGED pageVars
    \/ \E r \in InFlight : VerifySave(r) /\ UNCHANGED pageVars
    \/ \E raw \in 1..MaxRaw, p \in Passwords : ResetFind(raw, p) /\ UNCHANGED pageVars
    \/ \E r \in InFlight : ResetSave(r) /\ UNCHANGED pageVars

SpecVerify == InitVerify /\ [][NextVerify]_vars

\* bearer tokens presented to the guard while logins, password resets and
\* email verifications go on
NextSession ==
    \/ Tick /\ UNCHANGED pageVars
    \/ \E e \in Emails, p \in Passwords : Login(e, p) /\ UNCHANGED pageVars
    \/ \E raw \in 1..MaxRaw : VerifyFind(raw) /\ UNCHANGED pageVars
    \/ \E r \in InFlight : VerifySave(r) /\ UNCHANGED pageVars
    \/ \E raw \in 1..MaxRaw, p \in Passwords : ResetFind(raw, p) /\ UNCHANGED pageVars
    \/ \E r \in InFlight : ResetSave(r) /\ UNCHANGED pageVars
    \/ \E k \in SignedTokens : protect(Bearer(k)) /\ UNCHANGED pageVars
    \/ \E r \in InFlight : restrictTo(r, Roles) /\ UNCHANGED pageVars

SpecSession == InitVerify /\ [][NextSession]_vars

\* the Sessions page: mounted over any list of the sessions API, with the
\* fetch of its first effect on the way
InitPage ==
    /\ users = {}
    /\ nextId = 1
    /\ nextRaw = 1
    /\ now = 0
    /\ reqs = EmptyBag
    /\ resp = NoResponse
    /\ resetDone = [t \in 1..MaxRaw |-> 0]
    /\ stored \in StoredLists
    /\ sessions = NoSessions
    /\ loading = TRUE
    /\ error = ""
    /\ calls = SetToBag({Call("fetch", "get", 0)})
    /\ dialog = NoDialog

NextPage ==
    \/ \E c \in Calling, o \in GetOutcomes : FetchSessions(c, o) /\ UNCHANGED authVars
    \/ \E id \in Displayed, ok \in BOOLEAN : handleDeleteSession(id, ok) /\ UNCHANGED authVars
    \/ \E c \in Calling, done \in BOOLEAN : DeleteCall(c, done) /\ UNCHANGED authVars
    \/ \E c \in Calling, o \in GetOutcomes : DeleteRefresh(c, o) /\ UNCHANGED authVars
    \/ \E id \in Displayed, ok \in BOOLEAN : handleCancelSession(id, ok) /\ UNCHANGED authVars
    \/ \E c \in Calling, done \in BOOLEAN : CancelCall(c, done) /\ UNCHANGED authVars
    \/ \E c \in Calling, o \in GetOutcomes : CancelRefresh(c, o) /\ UNCHANGED authVars

SpecPage == InitPage /\ [][NextPage]_vars

(* ======================= properties ======================= *)

\* C1: a signup request whose email already belongs to a stored identity is
\* answered 400 'Email already registered' without a token, creates no record
\* and leaves every stored record as it was.
C1_DuplicateSignupRejected ==
    [][\A e \in Emails, p \in Passwords, ro \in Roles :
         (FindByEmail(users, e) # {} /\ SignupFind(e, p, ro)) =>
            /\ resp' = Error("signup", 400, "Email already registered")
            /\ resp'.token = NoToken
            /\ users' = users
            /\ nextId' = nextId
            /\ reqs' = reqs]_vars

C1_Witness ==
    /\ resp = Error("signup", 400, "Email already registered")
    /\ users # {}

\* C2: in every reachable state the store holds at most one identity record
\* per email (and one per id), whatever the interleaving of signups and
\* third-party logins.
C2_OneIdentityPerEmail ==
    \A u \in users, v \in users : (u.email = v.email \/ u.id = v.id) => u = v

\* the second of two racing signups was turned down by the store
C2_Witness ==
    /\ resp = Error("signup", 400, "duplicate key error")
    /\ \E u \in users : u.password # None

\* C4: a login with the email of a stored identity and a password that does
\* not match it is answered exactly like a login with an email of no identity:
\* 401 'Incorrect email or password'.
C4_LoginNonEnumeration ==
    \A e \in Emails, p \in Passwords :
        LET found == FindByEmail(users, e) IN
        (found # {} /\ \A u \in found : u.password # HashPassword(p)) =>
            /\ LoginResponse(users, e, p, now) = LoginResponse(users, UnknownEmail, p, now)
            /\ LoginResponse(users, e, p, now) =
                   Error("login", 401, "Incorrect email or password")

C4_Witness ==
    /\ resp = Error("login", 401, "Incorrect email or password")
    /\ \E u \in users : u.password = None
    /\ \E u \in users : u.password # None

\* C3: a token signToken(id) made at time t is accepted by protect's
\* verification, and resolves to identity id, at every time before
\* t + JWT_EXPIRE, and is rejected as 'Invalid token' at every time after it;
\* a token with an altered payload or another key's signature is never accepted.
C3_TokenLifetime ==
    /\ \A id \in 1..(nextId - 1), t \in 0..now :
          LET r == ProtectResponse(users, Bearer(signToken(id, t)), now) IN
          /\ now < t + JWT_EXPIRE =>
                /\ r.message # "Invalid token"
                /\ FindById(users, id) # {} => (r.next /\ r.data[1].id = id)
          /\ now > t + JWT_EXPIRE => r = Error("protect", 401, "Invalid token")
    /\ \A k \in TamperedTokens \cup ForgedTokens :
          ProtectResponse(users, Bearer(k), now) = Error("protect", 401, "Invalid token")

\* a token is accepted although the tokens of time 0 have expired
C3_Witness ==
    /\ resp.op = "protect" /\ resp.next
    /\ now >= JWT_EXPIRE

\* C7: protect calls next only for a bearer token that signToken made, that
\* is unexpired and whose identity is in the store, and req.user is then that
\* identity; without a bearer token it answers 401 'not logged in', with an
\* expired or altered token 401 'Invalid token', with a valid token of a
\* removed identity 401, and next is called in none of these cases.
C7_ProtectGuards ==
    /\ \A h \in Headers :
         LET r == ProtectResponse(users, h, now)
             valid == /\ h.kind = "bearer"
                      /\ h.tok = signToken(h.tok.id, h.tok.iat)
                      /\ h.tok.id \in 1..(nextId - 1)
                      /\ h.tok.iat \in 0..now
                      /\ now < h.tok.exp
             owner == {u \in users : u.id = h.tok.id}
         IN /\ r.op = "protect"
            /\ r.next <=> (valid /\ owner # {})
            /\ r.next => (r.data \in {<<u>> : u \in owner} /\ r.status = 0)
            /\ ~r.next => r.status = 401
            /\ h.kind # "bearer" =>
                 r.message = "You are not logged in! Please log in to get access."
            /\ (h.kind = "bearer" /\ ~valid) => r.message = "Invalid token"
            /\ (valid /\ owner = {}) =>
                 r.message = "The user belonging to this token no longer exists."
    \* a request reaches its route only through next, as the identity resolved
    /\ \A q \in InFlight :
         q.op = "route" =>
            /\ q.uid \in 1..(nextId - 1)
            /\ \A u \in users : u.id = q.uid => u.role = q.role
    /\ (resp.op = "protect" /\ ~resp.next) => resp.status = 401

\* a valid token of an identity that was removed is turned down
C7_Witness ==
    resp = Error("protect", 401, "The user belonging to this token no longer exists.")

\* C8: after protect, restrictTo(...roles) calls next exactly when the role
\* of req.user is in the allow-list, and answers 403 otherwise.
C8_RestrictTo ==
    [][\A r \in InFlight, roles \in SUBSET Roles : restrictTo(r, roles) =>
         /\ resp'.next <=> r.role \in roles
         /\ r.role \notin roles =>
              resp' = Error("restrictTo", 403,
                            "You do not have permission to perform this action")
         /\ users' = users]_vars

\* an identity whose role is not on the allow-list is turned down
C8_Witness ==
    /\ resp = Error("restrictTo", 403, "You do not have permission to perform this action")
    /\ \E u \in users : u.role = "admin"

\* C5: once a reset-password request with raw token T has succeeded, every
\* reset-password request with T that arrives later is answered 400 'Invalid
\* or expired reset token' and changes no record.
C5_ResetTicketSingleUse ==
    [][\A raw \in 1..MaxRaw, p \in Passwords :
         (resetDone[raw] > 0 /\ ResetFind(raw, p)) =>
            /\ resp' = Error("reset", 400, "Invalid or expired reset token")
            /\ users' = users
            /\ reqs' = reqs]_vars

\* every token of the model has been consumed, and the last answer is the
\* rejection of a reset
C5_Witness ==
    /\ resp = Error("reset", 400, "Invalid or expired reset token")
    /\ \A raw \in 1..MaxRaw : resetDone[raw] > 0

\* C6: of the reset-password requests that carry one raw token, at most one
\* reports success.
C6_AtMostOneResetPerToken ==
    \A raw \in 1..MaxRaw : resetDone[raw] <= 1

\* C9: after a successful reset-password with new password p1, a login with
\* the identity's email and p1 is answered 200 with a token, and a login with
\* any other password, the one of the signup included, is answered 401.
C9_LoginAfterReset ==
    [][\A r \in InFlight :
         (ResetSave(r) /\ resp'.status = 200) =>
            /\ LoginResponse(users', r.email, r.password, now).status = 200
            /\ LoginResponse(users', r.email, r.password, now).token # NoToken
            /\ \A p0 \in Passwords \ {r.password} :
                  LoginResponse(users', r.email, p0, now).status = 401]_vars

\* a reset has replaced the password identity 1 signed up with
C9_Witness ==
    /\ resp = Response("reset", 200, "Password reset successfully", NoToken, None, FALSE)
    /\ \E u \in users : u.id = 1 /\ u.password = HashPassword("p1")
    /\ LoginResponse(users, "a@x", "p1", now).status = 200
    /\ LoginResponse(users, "a@x", "p0", now).status = 401

C11_GoogleFailureIsAuthError ==
    [][GoogleFail => (resp'.status = 401 /\ resp'.token = NoToken)]_vars

\* C12: a successful signup answers 201 with a token of the new identity and
\* the projection id, fullName, email, role, isEmailVerified of it and nothing
\* else: no password, no hash; the new identity is stored verified.
C12_SignupPayload ==
    [][\A r \in InFlight :
         (SignupCreate(r) /\ resp'.status = 201) =>
            \E u \in users' \ users :
               /\ u.email = r.email
               /\ u.isEmailVerified
               /\ u.password = HashPassword(r.password)
               /\ resp'.token = signToken(u.id, now)
               /\ DOMAIN resp'.data[1] =
                     {"id", "fullName", "email", "role", "isEmailVerified"}
               /\ resp'.data[1] = [id |-> u.id, fullName |-> u.fullName,
                                   email |-> u.email, role |-> u.role,
                                   isEmailVerified |-> TRUE]
               /\ DOMAIN resp' = {"op", "status", "message", "token", "data", "next"}]_vars

C12_Witness ==
    /\ resp.op = "signup" /\ resp.status = 201
    /\ \E u \in users : resp.data[1].id = u.id /\ u.password # None

\* C13: a Google login whose provider id is stored reuses that identity
\* unchanged and redirects with a token of its id; one whose provider id is
\* not stored creates one identity (verified, role student, no password) and
\* redirects with a token of the new id; after either redirect exactly one
\* stored identity has the provider id.
C13_GoogleLoginIdempotent ==
    [][/\ \A profile \in GoogleProfiles :
            GoogleFind(profile) =>
               /\ users' = users
               /\ \A u \in FindByGoogleId(users, profile.id) :
                     /\ resp' = GoogleRedirect(u)
                     /\ resp'.token.id = u.id
                     /\ FindByGoogleId(users', profile.id) = {u}
       /\ \A r \in InFlight :
            GoogleCreate(r) =>
               IF resp'.status = 302
               THEN /\ FindByGoogleId(users, r.gid) = {}
                    /\ \E u \in users' \ users :
                          /\ users' = users \cup {u}
                          /\ u.googleId = r.gid /\ u.email = r.email
                          /\ u.isEmailVerified /\ u.role = "student"
                          /\ u.password = None
                          /\ resp'.token.id = u.id
                          /\ FindByGoogleId(users', r.gid) = {u}
               ELSE users' = users]_vars

C13_Witness ==
    /\ resp.op = "google" /\ resp.status = 302
    /\ nextId = 2
    /\ \E u \in users : u.googleId = "g1" /\ resp.token.id = u.id /\ resp.token.iat > 0

\* C14: in every reachable state an identity created by the Google flow has
\* no password hash, forgot-password and reset-password for it included.
C14_OAuthIdentityHasNoPassword ==
    \A u \in users : u.googleId # "" => u.password = None

\* C15: a verify-email whose raw token hashes to a stored verification ticket
\* that has not expired sets the flag and clears both ticket fields in one
\* save and changes nothing else, the password included; from then on the
\* same raw token finds no ticket, and a verify-email that finds no ticket is
\* answered 400 'Invalid or expired verification token'.
C15_VerifyEmailSingleUse ==
    [][/\ \A r \in InFlight :
            (VerifySave(r) /\ resp'.status = 200) =>
               /\ resp' = Response("verify", 200, "Email verified successfully",
                                   NoToken, None, FALSE)
               /\ \A u \in FindById(users, r.uid) :
                     users' = (users \ {u}) \cup
                              {[u EXCEPT !.isEmailVerified = TRUE,
                                         !.emailVerificationToken = None,
                                         !.emailVerificationExpires = None]}
               /\ \A u \in FindById(users', r.uid) :
                     /\ u.isEmailVerified
                     /\ u.emailVerificationToken = None
                     /\ u.emailVerificationExpires = None
               /\ FindByVerificationToken(users', Sha256(r.raw), now') = {}
       /\ \A raw \in 1..MaxRaw :
            /\ (FindByVerificationToken(users, Sha256(raw), now) = {})
                  => (FindByVerificationToken(users', Sha256(raw), now') = {})
            /\ (VerifyFind(raw) /\ FindByVerificationToken(users, Sha256(raw), now) = {})
                  => /\ resp' = Error("verify", 400, "Invalid or expired verification token")
                     /\ users' = users /\ reqs' = reqs]_vars

\* verified by raw token 1 before its expiry, then shown token 1 again
C15_Witness ==
    /\ resp = Error("verify", 400, "Invalid or expired verification token")
    /\ now < RESET_EXPIRE
    /\ \E u \in users : /\ u.id = 1 /\ u.isEmailVerified
                        /\ u.emailVerificationToken = None
                        /\ u.password = HashPassword("p0")

\* C20: a reset-password or verify-email that fails because no identity holds
\* the token's hash with an expiry strictly later than now is answered 400 and
\* leaves every record as it was, so a ticket that has not expired survives it.
C20_FailedAttemptChangesNothing ==
    [][\A raw \in 1..MaxRaw :
         /\ \A p \in Passwords :
               (ResetFind(raw, p) /\ FindByResetToken(users, Sha256(raw), now) = {})
                  => /\ resp' = Error("reset", 400, "Invalid or expired reset token")
                     /\ users' = users /\ reqs' = reqs
         /\ (VerifyFind(raw) /\ FindByVerificationToken(users, Sha256(raw), now) = {})
               => /\ resp' = Error("verify", 400, "Invalid or expired verification token")
                  /\ users' = users /\ reqs' = reqs
         /\ \A u \in users :
               (u.passwordResetExpires # None /\ u.passwordResetExpires[1] <= now
                  /\ u.passwordResetToken = Sha256(raw))
               => FindByResetToken(users, Sha256(raw), now) = {}]_vars

\* a reset was refused while both tickets stand and the clock has reached
\* their expiry
C20_Witness ==
    /\ resp = Error("reset", 400, "Invalid or expired reset token")
    /\ now >= RESET_EXPIRE
    /\ users = Ticketed

\* C16: forgot-password for an email no identity has is answered 404 'No user
\* found with that email address', changes no record and sends no mail; for a
\* stored identity the hash of a fresh raw token and its expiry are saved on
\* the record before the mail is dispatched, the mail goes to the request's
\* email with that raw token, and the store only ever holds hashes.
C16_ForgotPassword ==
    [][/\ \A e \in Emails \cup {UnknownEmail} :
            (ForgotFind(e) /\ FindByEmail(users, e) = {}) =>
               /\ resp' = Error("forgot", 404, "No user found with that email address")
               /\ users' = users
               /\ reqs' = reqs
               /\ nextRaw' = nextRaw
       /\ \A r \in InFlight :
            /\ (ForgotSave(r) /\ FindById(users, r.uid) # {}) =>
                  /\ \E u \in users' :
                        /\ u.id = r.uid /\ u.email = r.email
                        /\ u.passwordResetToken = Sha256(nextRaw)
                        /\ u.passwordResetExpires = <<now + RESET_EXPIRE>>
                  /\ reqs' = Leave(r) (+)
                        SetToBag({Request("forgot", "mail", r.email, "", "", "", r.uid, nextRaw, 0)})
                  /\ resp' = resp
            /\ \A sent \in MailOutcomes :
                  ForgotMail(r, sent) => (r.raw \in 1..(nextRaw - 1) /\ users' = users)
       /\ \A q \in BagToSet(reqs') :
            (q.op = "forgot" /\ q.pc = "save") => q.raw = 0
       /\ \A u \in users' :
            u.passwordResetToken \in {None} \cup {Sha256(raw) : raw \in 1..MaxRaw}]_vars

\* the ticket of raw token 1 is on the record while its mail has yet to go out
C16_Witness ==
    \E r \in InFlight :
       /\ r.op = "forgot" /\ r.pc = "mail" /\ r.raw = 1
       /\ \E u \in users : /\ u.id = r.uid /\ u.email = r.email
                           /\ u.passwordResetToken = Sha256(r.raw)
                           /\ u.passwordResetExpires # None

\* C17: when the dispatch of the reset mail fails the saved ticket stays: no
\* record changes, the identity still holds the hash and the expiry, and a
\* reset-password with the raw token before the expiry finds the identity
\* and sets the new password.
C17_TicketSurvivesMailFailure ==
    [][/\ \A r \in InFlight :
            ForgotMail(r, FALSE) =>
               /\ users' = users
               /\ \A u \in FindById(users, r.uid) :
                     (u.passwordResetToken = Sha256(r.raw)
                         /\ u.passwordResetExpires[1] > now)
                     => FindByResetToken(users', Sha256(r.raw), now') = {u}
       /\ \A raw \in 1..MaxRaw, p \in Passwords :
            (ResetFind(raw, p) /\ FindByResetToken(users, Sha256(raw), now) # {}) =>
               \E u \in FindByResetToken(users, Sha256(raw), now) :
                  reqs' = Enter(Request("reset", "save", u.email, p, "", "", u.id, raw, 0))
       /\ \A r \in InFlight :
            (ResetSave(r) /\ FindById(users, r.uid) # {}) =>
               /\ resp'.status = 200
               /\ \A u \in FindById(users', r.uid) : u.password = HashPassword(r.password)]_vars

\* the mail of the only token issued has failed and its ticket still resolves
C17_Witness ==
    /\ resp = Error("forgot", 400, "email dispatch failed")
    /\ nextRaw = 2 /\ reqs = EmptyBag
    /\ FindByResetToken(users, Sha256(1), now) # {}

\* C19: an identity has at most one live reset ticket: the save of a
\* forgot-password puts the new token's ticket in the place of any earlier
\* one, so the new raw token resolves to the identity, no other raw token
\* does, and a reset-password with an earlier token is answered 400
\* 'Invalid or expired reset token'.
C19_OneLiveResetTicket ==
    [][/\ \A r \in InFlight :
            (ForgotSave(r) /\ FindById(users, r.uid) # {}) =>
               \A u \in FindById(users', r.uid) :
                  /\ FindByResetToken(users', Sha256(nextRaw), now') = {u}
                  /\ \A raw \in 1..MaxRaw :
                        u \in FindByResetToken(users', Sha256(raw), now') => raw = nextRaw
       /\ \A u \in users' :
            Cardinality({raw \in 1..MaxRaw :
                           u \in FindByResetToken(users', Sha256(raw), now')}) <= 1
       /\ \A raw \in 1..MaxRaw, p \in Passwords :
            (ResetFind(raw, p) /\ FindByResetToken(users, Sha256(raw), now) = {}) =>
               resp' = Error("reset", 400, "Invalid or expired reset token")]_vars

\* one identity holds the live ticket of the second token, nobody holds the
\* first, no reset has gone through and a reset has just been refused
C19_Witness ==
    /\ resp = Error("reset", 400, "Invalid or expired reset token")
    /\ \A raw \in 1..MaxRaw : resetDone[raw] = 0
    /\ \E u \in users :
          /\ FindByResetToken(users, Sha256(2), now) = {u}
          /\ \A v \in users \ {u} : v.passwordResetToken = None

\* C18: whether protect lets a token through depends on the token's
\* signature and expiry and on the existence of its identity only: no step
\* that leaves the clock and the set of stored ids alone changes the verdict
\* on any token, and a signed token that is let through is let through
\* after every later step (a reset-password, a verify-email or a login of
\* its identity among them) that leaves it unexpired and its identity stored.
C18_TokenOutlivesReset ==
    [][\A k \in SignedTokens :
         LET before == ProtectResponse(users, Bearer(k), now).next
             after  == ProtectResponse(users', Bearer(k), now').next
         IN /\ protect(Bearer(k)) => resp'.next = before
            /\ (now' = now /\ {u.id : u \in users'} = {u.id : u \in users})
                  => after = before
            /\ (before /\ now' < k.exp /\ FindById(users', k.id) # {}) => after]_vars

\* the guard has let a token of identity 2 through after its password was
\* reset, and one of identity 1 after its email was verified
C18_Witness ==
    /\ resp.op = "protect" /\ resp.next
    /\ resetDone[2] >= 1
    /\ resp.data[1].id = 2
    /\ resp.data[1].passwordResetToken = None
    /\ \E u \in users : u.id = 1 /\ u.isEmailVerified

\* C21: after the initial fetch and after the refresh of a delete or a cancel
\* the three buckets partition the non-null sessions the API returned: each
\* is in exactly one bucket, 'ongoing' for status 'ongoing', 'previous' for
\* 'completed', 'upcoming' for every other status and for none, in the order
\* returned; a delete or cancel that is not confirmed makes no API call and
\* leaves the buckets as they were.
C21_BucketsPartitionSessions ==
    [][LET Buckets == {"ongoing", "previous", "upcoming"}
           NonNull(list) == SelectSeq(list, LAMBDA e : e # <<>>)
           Belongs(status, b) ==
               CASE b = "ongoing"  -> status = "ongoing"
                 [] b = "previous" -> status = "completed"
                 [] OTHER          -> status \notin {"ongoing", "completed"}
           Expected(list, b) ==
               LET mine == SelectSeq(NonNull(list), LAMBDA e : Belongs(e[1].status, b))
               IN [i \in 1..Len(mine) |->
                      [id |-> mine[i][1].id,
                       status |-> IF mine[i][1].status = "" THEN "upcoming"
                                  ELSE mine[i][1].status]]
       IN
       /\ \A c \in Calling, o \in {"ok", "nodata"} :
            (FetchSessions(c, o) \/ DeleteRefresh(c, o) \/ CancelRefresh(c, o)) =>
               LET returned == IF o = "ok" THEN stored ELSE <<>> IN
               /\ \A b \in Buckets : sessions'[b] = Expected(returned, b)
               /\ Len(sessions'.ongoing) + Len(sessions'.previous) + Len(sessions'.upcoming)
                     = Len(NonNull(returned))
               /\ \A i \in 1..Len(returned) :
                     returned[i] # <<>> =>
                        Cardinality({b \in Buckets :
                                       \E j \in 1..Len(sessions'[b]) :
                                          sessions'[b][j].id = returned[i][1].id}) = 1
       /\ \A id \in Displayed :
            (handleDeleteSession(id, FALSE) \/ handleCancelSession(id, FALSE)) =>
               /\ calls' = calls
               /\ stored' = stored
               /\ sessions' = sessions
               /\ error' = error]_vars

\* a cancel has gone through and its refresh has filed the cancelled session
\* under upcoming with its status shown
C21_Witness ==
    /\ dialog = [op |-> "cancel", confirmed |-> TRUE]
    /\ calls = EmptyBag /\ error = ""
    /\ Len(stored) = 2
    /\ \E i \in 1..Len(sessions.upcoming) :
          sessions.upcoming[i] = [id |-> 1, status |-> "cancelled"]
====
